---- MODULE Spec2Model ----
(***************************************************************************)
(* Model of streamlit_app.py: a Streamlit script that loads an uploaded    *)
(* CSV of taxi trips (load_data) and runs the analysis handler chosen in   *)
(* the sidebar.  Every user interaction re-runs the whole script, so each  *)
(* action below is one complete script run.                                *)
(***************************************************************************)
EXTENDS Integers, Sequences, FiniteSets, TLC

VARIABLES
    csv,              \* the CSV file on the user's disk (never changes)
    file,             \* st.file_uploader's value: NoFile or the uploaded file
    cache,            \* st.cache_data's entry for load_data(file)
    data,             \* the script's `data` at the end of the last run
    analysis_option,  \* the sidebar selectbox's value
    out,              \* what the last run reported, in order
    result,           \* the result table the last run's handler produced
    fault,            \* the exception that ended the last run, or "none"
    ran,              \* the analysis handlers the last run called, in order
    load_calls        \* calls of load_data by the last run

vars == <<csv, file, cache, data, analysis_option, out, result, fault, ran,
          load_calls>>

-----------------------------------------------------------------------------
(* Bounds and program constants *)

MaxRows == 2

chunksize == 50000

MaxUploadBytes == 100 * 1024

SecondsPerMinute == 60

SecondsPerHour == 3600

SecondsPerDay == 86400

HoursPerDay == 24

DaysPerWeek == 7

\* 1970-01-01 was a Thursday; pandas numbers Monday 0.
EpochWeekday == 3

HeadCount == 3

-----------------------------------------------------------------------------
(* Cell values.  Every cell is a record [k, v, d]: k is the kind, and a     *)
(* number is the rational v/d (d = 1 for what the CSV holds).               *)

Num(n) == [k |-> "num", v |-> n, d |-> 1]
Frac(n, m) == [k |-> "num", v |-> n, d |-> m]
NaN == [k |-> "nan", v |-> 0, d |-> 1]
Inf == [k |-> "inf", v |-> 0, d |-> 1]
NegInf == [k |-> "-inf", v |-> 0, d |-> 1]
\* a text field; s is the instant it spells (seconds since the epoch), 0 when
\* it spells none
Str(s) == [k |-> "str", v |-> s, d |-> 1]
Empty == [k |-> "empty", v |-> 0, d |-> 1]
Timestamp(s) == [k |-> "ts", v |-> s, d |-> 1]
NaT == [k |-> "nat", v |-> 0, d |-> 1]

IsNull(c) == c.k \in {"nan", "nat"}

-----------------------------------------------------------------------------
(* Column names *)

PICKUP == "tpep_pickup_datetime"
DROPOFF == "tpep_dropoff_datetime"
DURATION == "trip_duration_minutes"
HOUR == "hour"
PULOC == "PULocationID"
TOTAL == "total_amount"
TIP == "tip_amount"
PASSENGERS == "passenger_count"

\* the columns an uploaded CSV may carry in this model
InputColumns == {PICKUP, DROPOFF, HOUR, PULOC, TOTAL, TIP, PASSENGERS}

-----------------------------------------------------------------------------
(* Tables (pandas DataFrame) and None *)

DataFrame(cols, rws) == [isNone |-> FALSE, columns |-> cols, rows |-> rws]
None == [isNone |-> TRUE, columns |-> {}, rows |-> <<>>]

\* DataFrame.empty: any axis of length 0
IsEmptyFrame(df) == df.columns = {} \/ Len(df.rows) = 0

\* data[c] = values (an assignment of a whole column; adds c when absent)
SetColumn(df, c, values) ==
    DataFrame(df.columns \cup {c},
              [i \in 1..Len(df.rows) |->
                  [x \in df.columns \cup {c} |->
                      IF x = c THEN values[i] ELSE df.rows[i][x]]])

Column(df, c) == [i \in 1..Len(df.rows) |-> df.rows[i][c]]

RECURSIVE Flatten(_)
Flatten(chunks) ==
    IF chunks = <<>> THEN <<>> ELSE Head(chunks) \o Flatten(Tail(chunks))

RECURSIVE Chunked(_, _)
Chunked(lines, n) ==
    IF Len(lines) <= n THEN <<lines>>
    ELSE <<SubSeq(lines, 1, n)>> \o Chunked(SubSeq(lines, n + 1, Len(lines)), n)

RECURSIVE SelectLines(_)
SelectLines(lines) ==
    IF lines = <<>> THEN <<>>
    ELSE IF Head(lines).bad THEN SelectLines(Tail(lines))
         ELSE <<Head(lines)>> \o SelectLines(Tail(lines))

-----------------------------------------------------------------------------
(* Inputs *)

\* 2024-01-01 00:00:00, a Monday, in seconds since the epoch
Monday == 19723 * SecondsPerDay

At(day, h, m, sec) ==
    Monday + day * SecondsPerDay + h * SecondsPerHour + m * SecondsPerMinute + sec

Line(pickup, dropoff, hour, zone, total, tip, passengers) ==
    [bad |-> FALSE,
     cells |-> (PICKUP :> pickup) @@ (DROPOFF :> dropoff) @@ (HOUR :> hour) @@
               (PULOC :> zone) @@ (TOTAL :> total) @@ (TIP :> tip) @@
               (PASSENGERS :> passengers)]

\* the lines a CSV file is made of in this model, by number: a well-formed
\* trip; a refund that ends after midnight, with the tip and the passenger
\* count left empty; a trip with an unreadable pickup time, no hour and a
\* text passenger count; and the first trip with a field too many
SampleLines ==
    <<Line(Str(At(0, 8, 0, 0)), Str(At(0, 8, 15, 30)), Num(8), Num(1),
           Num(10), Num(2), Num(1)),
      Line(Str(At(1, 23, 59, 59)), Str(At(2, 0, 10, 0)), Num(23), Num(2),
           Num(0 - 10), Empty, Empty),
      Line(Str(0), Str(At(0, 9, 0, 0)), Empty, Num(1),
           Num(0), Num(3), Str(0)),
      [Line(Str(At(0, 8, 0, 0)), Str(At(0, 8, 15, 30)), Num(8), Num(1),
            Num(10), Num(2), Num(1)) EXCEPT !.bad = TRUE]>>

LineSeqs == UNION {[1..n -> DOMAIN SampleLines] : n \in 0..MaxRows}

FileSizes == {MaxUploadBytes, MaxUploadBytes + 1}

\* an uploaded file: its size in bytes, its header and its lines (each the
\* number of a sample line)
Files ==
    {[size |-> sz, columns |-> cols, lines |-> ls, none |-> FALSE] :
        sz \in FileSizes, cols \in SUBSET InputColumns, ls \in LineSeqs}

\* the text of the file
Content(f) ==
    [columns |-> f.columns,
     lines |-> [i \in DOMAIN f.lines |-> SampleLines[f.lines[i]]]]

-----------------------------------------------------------------------------
(* load_data *)

\* read_csv's type inference of one field: an empty field is NaN
ParseField(c) == IF c.k = "empty" THEN NaN ELSE c

\* pd.read_csv(..., chunksize, on_bad_lines='skip'): a file without a header
\* line raises; malformed lines are skipped; the rest comes in chunks.
ReadCsv(content, n) ==
    IF content.columns = {}
    THEN [raised |-> TRUE, chunks |-> <<>>]
    ELSE [raised |-> FALSE,
          chunks |->
            LET good == SelectLines(content.lines)
                rws == [i \in 1..Len(good) |->
                          [x \in content.columns |-> ParseField(good[i].cells[x])]]
            IN Chunked(rws, n)]

\* pd.to_datetime(value, errors='coerce')
ToDatetime(c) ==
    IF c.k = "str" /\ c.v # 0 THEN Timestamp(c.v)
    ELSE IF c.k = "ts" THEN c
    ELSE NaT

\* variant: a missing timestamp gives a duration of zero
TripDurationZeroFilled(pickup, dropoff) ==
    IF pickup.k = "ts" /\ dropoff.k = "ts"
    THEN Frac(dropoff.v - pickup.v, SecondsPerMinute)
    ELSE Num(0)

\* (dropoff - pickup).dt.total_seconds() / 60
TripDuration(pickup, dropoff) ==
    IF pickup.k = "ts" /\ dropoff.k = "ts"
    THEN Frac(dropoff.v - pickup.v, SecondsPerMinute)
    ELSE NaN

ConvertDatetime(df, c) ==
    IF c \in df.columns
    THEN SetColumn(df, c, [i \in 1..Len(df.rows) |-> ToDatetime(df.rows[i][c])])
    ELSE df

AddDuration(df) ==
    IF PICKUP \in df.columns /\ DROPOFF \in df.columns
    THEN SetColumn(df, DURATION,
                   [i \in 1..Len(df.rows) |->
                       TripDuration(df.rows[i][PICKUP], df.rows[i][DROPOFF])])
    ELSE df

\* load_data(file): the table, or None with a reported error when anything
\* in the body raised
load_data(f) ==
    LET rd == ReadCsv(Content(f), chunksize)
    IN IF rd.raised
       THEN [ret |-> None, out |-> <<"error: Error loading data">>]
       ELSE LET d0 == DataFrame(f.columns, Flatten(rd.chunks))
                d1 == ConvertDatetime(d0, PICKUP)
                d2 == ConvertDatetime(d1, DROPOFF)
            IN [ret |-> AddDuration(d2), out |-> <<>>]

-----------------------------------------------------------------------------
(* Helpers of the analysis handlers.  Chart drawing (st.pyplot,             *)
(* st.plotly_chart) is taken as an external step that draws what it is      *)
(* given; the model records the table handed to it.                         *)

\* pd.to_numeric(value, errors='coerce') on a numeric or text column
ToNumeric(c) ==
    CASE c.k = "num" -> c
      [] c.k \in {"str", "nan"} -> NaN

\* Series.fillna(x)
FillNa(c, x) == IF c.k = "nan" THEN x ELSE c

\* variant: the fillna(0) is left out
SanitizeNoFill(values) == [i \in DOMAIN values |-> ToNumeric(values[i])]

\* pd.to_numeric(data[column], errors='coerce').fillna(0)
Sanitize(values) ==
    [i \in DOMAIN values |-> FillNa(ToNumeric(values[i]), Num(0))]

\* Series.dt.hour
HourOf(c) ==
    IF c.k = "ts" THEN Num((c.v \div SecondsPerHour) % HoursPerDay) ELSE NaN

\* Series.dt.weekday
WeekdayOf(c) ==
    IF c.k = "ts"
    THEN Num(((c.v \div SecondsPerDay) + EpochWeekday) % DaysPerWeek)
    ELSE NaN

Indices(values) == DOMAIN values

\* the distinct non-null values of a column (group keys; NaN keys are dropped)
Keys(values) == {values[i] : i \in {j \in Indices(values) : ~IsNull(values[j])}}

CountOf(values, x) == Cardinality({i \in Indices(values) : values[i] = x})

FirstIndex(values, x) ==
    CHOOSE i \in Indices(values) :
        /\ values[i] = x
        /\ \A j \in Indices(values) : values[j] = x => i <= j

\* Series.value_counts(): count per distinct non-null value, most frequent
\* first (rank 1), equal counts in order of first appearance
ValueCounts(values) ==
    {[value |-> x, count |-> CountOf(values, x),
      rank |-> 1 + Cardinality({y \in Keys(values) :
                  \/ CountOf(values, y) > CountOf(values, x)
                  \/ /\ CountOf(values, y) = CountOf(values, x)
                     /\ FirstIndex(values, y) < FirstIndex(values, x)})] :
       x \in Keys(values)}

\* the number a cell adds to a sum (sum skips NaN)
Addend(c) == IF c.k = "num" THEN c.v ELSE 0

RECURSIVE SumWhere(_, _, _)
\* sum of values[i] over the rows i of I
SumWhere(values, I, acc) ==
    IF I = {} THEN acc
    ELSE LET i == CHOOSE j \in I : TRUE
         IN SumWhere(values, I \ {i}, acc + Addend(values[i]))

\* groupby(keys)[values].sum(): one row per distinct non-null key
GroupSum(keys, values, x) ==
    SumWhere(values, {i \in Indices(keys) : keys[i] = x}, 0)

RECURSIVE SumRows(_, _)
SumRows(rws, acc) ==
    IF rws = {} THEN acc
    ELSE LET r == CHOOSE q \in rws : TRUE
         IN SumRows(rws \ {r}, acc + r.total_amount)

\* (groupSum / total) * 100 in floating point: a zero divisor gives NaN or an
\* infinity, never an exception
Percentage(groupSum, total) ==
    IF total # 0 THEN Frac(100 * groupSum, total)
    ELSE IF groupSum = 0 THEN NaN
    ELSE IF groupSum > 0 THEN Inf ELSE NegInf

NoResult == [kind |-> "none", rows |-> {}]

Handled(df, msgs, res) ==
    [data |-> df, out |-> msgs, result |-> res, fault |-> "none"]

Raised(df, msgs, exc) ==
    [data |-> df, out |-> msgs, result |-> NoResult, fault |-> exc]

-----------------------------------------------------------------------------
(* The analysis handlers.  Each takes the run's table and gives the table   *)
(* as it leaves it, what it reported, its result, and the exception that    *)
(* escaped it ("none" when none did).                                       *)

ColumnNotFound == "error: Column not found in the data"
DatetimeNotFound == "error: Datetime column not found in the dataset"
LocationNotFound == "error: Location data not found in the dataset"
HeatmapNotFound == "error: Data for generating heatmap not found"
PickupZoneNotFound == "error: Pickup zone data not available"
HourlyNotFound == "error: Data for calculating hourly amounts not found"

\* the messages by which a handler reports that a column it needs is absent
NotFoundMessages ==
    {ColumnNotFound, DatetimeNotFound, LocationNotFound, HeatmapNotFound,
     PickupZoneNotFound, HourlyNotFound}

plot_distribution(df, column) ==
    IF column \notin df.columns
    THEN Handled(df, <<ColumnNotFound>>, NoResult)
    ELSE LET d1 == SetColumn(df, column, Sanitize(Column(df, column)))
         IN Handled(d1, <<"pyplot">>,
                    [kind |-> "histogram",
                     rows |-> {[value |-> r.value, count |-> r.count] :
                                 r \in ValueCounts(Column(d1, column))}])

\* variant: the hour is written over the pickup column instead of into a
\* column of its own
busiest_hours_in_place(df) ==
    IF PICKUP \in df.columns
    THEN LET d1 == SetColumn(df, PICKUP,
                       [i \in 1..Len(df.rows) |-> HourOf(df.rows[i][PICKUP])])
         IN Handled(d1, <<"pyplot">>,
                    [kind |-> "busiest",
                     rows |-> {[hour |-> r.value, count |-> r.count] :
                                 r \in ValueCounts(Column(d1, PICKUP))}])
    ELSE Handled(df, <<DatetimeNotFound>>, NoResult)

busiest_hours(df) ==
    IF PICKUP \in df.columns
    THEN LET d1 == SetColumn(df, HOUR,
                       [i \in 1..Len(df.rows) |-> HourOf(df.rows[i][PICKUP])])
         IN Handled(d1, <<"pyplot">>,
                    [kind |-> "busiest",
                     rows |-> {[hour |-> r.value, count |-> r.count] :
                                 r \in ValueCounts(Column(d1, HOUR))}])
    ELSE Handled(df, <<DatetimeNotFound>>, NoResult)

top_boroughs(df) ==
    IF PULOC \in df.columns
    THEN Handled(df, <<"write: Top 3 Boroughs">>,
                 [kind |-> "top",
                  rows |-> {r \in ValueCounts(Column(df, PULOC)) :
                              r.rank <= HeadCount}])
    ELSE Handled(df, <<LocationNotFound>>, NoResult)

traffic_heatmap(df) ==
    IF HOUR \in df.columns
    THEN IF PICKUP \notin df.columns
         THEN Raised(df, <<>>, "KeyError: tpep_pickup_datetime")
         ELSE LET pairs == [i \in 1..Len(df.rows) |->
                              <<df.rows[i][HOUR], WeekdayOf(df.rows[i][PICKUP])>>]
                  kept == {i \in 1..Len(df.rows) :
                             ~IsNull(pairs[i][1]) /\ ~IsNull(pairs[i][2])}
              IN Handled(df, <<"plotly_chart">>,
                         [kind |-> "heatmap",
                          rows |-> {[hour |-> pairs[i][1],
                                     weekday |-> pairs[i][2],
                                     count |-> Cardinality(
                                        {j \in kept : pairs[j] = pairs[i]})] :
                                      i \in kept}])
    ELSE Handled(df, <<HeatmapNotFound>>, NoResult)

revenue_share_by_pickup_zones(df) ==
    IF PULOC \in df.columns
    THEN IF TOTAL \notin df.columns
         THEN Raised(df, <<>>, "KeyError: total_amount")
         ELSE LET zones == Column(df, PULOC)
                  revenue_data ==
                      {[PULocationID |-> z,
                        total_amount |-> GroupSum(zones, Column(df, TOTAL), z)] :
                         z \in Keys(zones)}
                  total_revenue == SumRows(revenue_data, 0)
              IN Handled(df, <<"pyplot">>,
                         [kind |-> "revenue",
                          rows |-> {[PULocationID |-> r.PULocationID,
                                     total_amount |-> r.total_amount,
                                     percentage |->
                                        Percentage(r.total_amount, total_revenue)] :
                                      r \in revenue_data}])
    ELSE Handled(df, <<PickupZoneNotFound>>, NoResult)

hourly_total_and_tips(df) ==
    IF PICKUP \in df.columns
    THEN LET d1 == SetColumn(df, HOUR,
                       [i \in 1..Len(df.rows) |-> HourOf(df.rows[i][PICKUP])])
             hours == Column(d1, HOUR)
         IN IF TOTAL \notin d1.columns
            THEN Raised(d1, <<>>, "KeyError: total_amount")
            ELSE IF TIP \notin d1.columns
            THEN Raised(d1, <<>>, "KeyError: tip_amount")
            ELSE Handled(d1, <<"pyplot">>,
                         [kind |-> "hourly",
                          rows |-> {[hour |-> h,
                                     total_amount |->
                                        GroupSum(hours, Column(d1, TOTAL), h),
                                     tip_amount |->
                                        GroupSum(hours, Column(d1, TIP), h)] :
                                      h \in Keys(hours)}])
    ELSE Handled(df, <<HourlyNotFound>>, NoResult)

-----------------------------------------------------------------------------
(* The script: upload check, load, selection list and dispatch chain *)

\* the selectbox's options, in the order offered
Options ==
    <<"Passenger Count Distribution", "Payment Type Distribution",
      "Fare Amount Distribution", "Tip Amount Distribution",
      "Total Amount Distribution", "Busiest Hours", "Top 3 Boroughs",
      "Top 5 Routes in Manhattan", "Inter Borough Transition (Heatmap)",
      "Traffic Heatmap - Avg Rides per Weekday Hour",
      "Revenue Share by Pickup Zones", "Hourly Total Amount and Tips">>

OptionSet == {Options[i] : i \in DOMAIN Options}

\* a selectbox shows its first option until the user picks another
DefaultOption == Options[1]

Success == "success: Data loaded successfully"
SizeError == "error: File size exceeds 100 KB"
LoadError == "error: Error loading data"
NoDataError == "error: No data available for analysis"
UploadInfo == "info: Please upload a CSV file to proceed"
Footer == "write: Developed with Streamlit"
Description == "write: description"
Exception == "exception"

\* a call of a handler from the chain, followed by the st.write of its
\* description unless the handler raised
Call(name, h) ==
    [data |-> h.data,
     out |-> IF h.fault = "none" THEN h.out \o <<Description>> ELSE h.out,
     result |-> h.result, fault |-> h.fault, ran |-> <<name>>]

\* the column each distribution option hands to plot_distribution
DistributionColumn ==
    ("Passenger Count Distribution" :> "passenger_count") @@
    ("Payment Type Distribution" :> "payment_type") @@
    ("Fare Amount Distribution" :> "fare_amount") @@
    ("Tip Amount Distribution" :> "tip_amount") @@
    ("Total Amount Distribution" :> "total_amount")

\* the if/elif chain on analysis_option; an option no branch names falls
\* through the chain and nothing is called
Dispatch(df, opt) ==
    CASE opt \in DOMAIN DistributionColumn ->
            Call("plot_distribution",
                 plot_distribution(df, DistributionColumn[opt]))
      [] opt = "Busiest Hours" -> Call("busiest_hours", busiest_hours(df))
      [] opt = "Top 3 Boroughs" -> Call("top_boroughs", top_boroughs(df))
      [] opt = "Traffic Heatmap - Avg Rides per Weekday Hour" ->
            Call("traffic_heatmap", traffic_heatmap(df))
      [] opt = "Revenue Share by Pickup Zones" ->
            Call("revenue_share_by_pickup_zones",
                 revenue_share_by_pickup_zones(df))
      [] opt = "Hourly Total Amount and Tips" ->
            Call("hourly_total_and_tips", hourly_total_and_tips(df))
      [] OTHER ->
            [data |-> df, out |-> <<>>, result |-> NoResult, fault |-> "none",
             ran |-> <<>>]

NoFile == [size |-> 0, columns |-> {}, lines |-> <<>>, none |-> TRUE]

\* variant: the cap itself is rejected (>= for >)
SizeExceededAtCap(f) == f.size >= MaxUploadBytes

\* file.size > 100 * 1024
SizeExceeded(f) == f.size > MaxUploadBytes

\* variant: the check for an empty table is left out
NoDataOnlyNone(df) == df.isNone

\* data is None or data.empty
NoData(df) == df.isNone \/ IsEmptyFrame(df)

EmptyCache == [filled |-> FALSE, value |-> [ret |-> None, out |-> <<>>]]

\* variant: the cache hands out the stored object itself (as st.cache_resource
\* does), so what a run does to its table stays in the entry
CacheStoreShared(loaded, worked) == worked

\* st.cache_data keeps a serialized copy of what load_data returned: what a
\* run does to the table it was handed never reaches the entry
CacheStore(loaded, worked) == loaded

\* load_data behind st.cache_data: the body runs on a miss; a hit replays
\* the stored messages and hands out a fresh copy of the stored value
CachedLoad(f, c) == IF c.filled THEN c.value ELSE load_data(f)

\* the rest of a run once a table is loaded: dispatch, footer
Analyse(ld, opt, h) ==
    [cache |-> [filled |-> TRUE,
                value |-> [ret |-> CacheStore(ld.ret, h.data), out |-> ld.out]],
     data |-> h.data,
     out |-> ld.out \o <<Success>> \o h.out \o
             (IF h.fault = "none" THEN <<Footer>> ELSE <<Exception>>),
     result |-> h.result, fault |-> h.fault, ran |-> h.ran,
     load_calls |-> 1, option |-> opt]

\* the rest of a run once load_data has returned
AfterLoad(ld, opt) ==
    IF NoData(ld.ret)
    THEN [cache |-> [filled |-> TRUE, value |-> ld],
          data |-> ld.ret, out |-> ld.out \o <<NoDataError, Footer>>,
          result |-> NoResult, fault |-> "none", ran |-> <<>>,
          load_calls |-> 1, option |-> DefaultOption]
    ELSE Analyse(ld, opt, Dispatch(ld.ret, opt))

\* one run of the script, top to bottom
Script(f, opt, c) ==
    IF f.none
    THEN [cache |-> c, data |-> None, out |-> <<UploadInfo, Footer>>,
          result |-> NoResult, fault |-> "none", ran |-> <<>>,
          load_calls |-> 0, option |-> DefaultOption]
    ELSE IF SizeExceeded(f)
    THEN [cache |-> c, data |-> None, out |-> <<SizeError, Footer>>,
          result |-> NoResult, fault |-> "none", ran |-> <<>>,
          load_calls |-> 0, option |-> DefaultOption]
    ELSE AfterLoad(CachedLoad(f, c), opt)

-----------------------------------------------------------------------------
(* Actions: each user interaction re-runs the script *)

Run(f, opt) ==
    \E r \in {Script(f, opt, cache)} :
       /\ file' = f
       /\ cache' = r.cache
       /\ data' = r.data
       /\ analysis_option' = r.option
       /\ out' = r.out
       /\ result' = r.result
       /\ fault' = r.fault
       /\ ran' = r.ran
       /\ load_calls' = r.load_calls
       /\ UNCHANGED csv

\* whether the last run drew the selectbox
SelectboxShown == \E i \in DOMAIN out : out[i] = Success

Init ==
    /\ csv \in Files
    /\ file = NoFile
    /\ cache = EmptyCache
    /\ data = None
    /\ analysis_option = DefaultOption
    /\ out = <<UploadInfo, Footer>>
    /\ result = NoResult
    /\ fault = "none"
    /\ ran = <<>>
    /\ load_calls = 0

\* the user uploads the file
Upload ==
    /\ file.none
    /\ Run(csv, analysis_option)

\* the user removes the uploaded file
Remove ==
    /\ ~file.none
    /\ Run(NoFile, analysis_option)

\* the user picks another analysis in the sidebar
Select ==
    /\ ~file.none
    /\ SelectboxShown
    /\ \E opt \in OptionSet \ {analysis_option} : Run(file, opt)

Next == Upload \/ Remove \/ Select

Spec == Init /\ [][Next]_vars

-----------------------------------------------------------------------------
(* Properties *)

Reported(m) == \E i \in DOMAIN out : out[i] = m

\* the table load_data gives for the user's file, computed afresh
Loaded == load_data(csv).ret

\* the well-formed lines of the user's file, in order
GoodLines == SelectLines(Content(csv).lines)

\* C1: a file larger than 100 * 1024 bytes ends the run in the reported size
\* error, without a call of load_data, without a table and without a
\* handler; a file of at most that size never reports the size error.
C1_SizeCap ==
    ~file.none =>
        IF file.size > 100 * 1024
        THEN /\ out = <<SizeError, Footer>>
             /\ load_calls = 0
             /\ ~cache.filled
             /\ data.isNone
             /\ ran = <<>>
             /\ result = NoResult
        ELSE ~Reported(SizeError)

C1_Witness ==
    /\ ~file.none
    /\ file.size > 100 * 1024
    /\ file.lines # <<>>
    /\ Reported(SizeError)

\* C2: for a file within the cap the run ends in exactly one of two ways:
\* success is reported and the handlers get the complete table (every
\* well-formed line a row, at least one row), or the no-data error is
\* reported and no handler runs; load_data raising is one of the latter.
C2_LoadOutcome ==
    (~file.none /\ file.size <= 100 * 1024) =>
        \/ /\ Reported(Success)
           /\ ~Reported(NoDataError)
           /\ ~Reported(LoadError)
           /\ ~data.isNone
           /\ Len(data.rows) >= 1
           /\ Len(data.rows) = Len(GoodLines)
           /\ file.columns \subseteq data.columns
        \/ /\ ~Reported(Success)
           /\ Reported(NoDataError)
           /\ ran = <<>>
           /\ result = NoResult
           /\ fault = "none"
           /\ (data.isNone <=> Reported(LoadError))
           /\ (~data.isNone => Len(data.rows) = 0)

\* a header and lines that are all malformed: an empty table, turned away
C2_Witness ==
    /\ ~file.none
    /\ file.size <= 100 * 1024
    /\ file.lines # <<>>
    /\ ~data.isNone
    /\ Reported(NoDataError)

\* C8: plot_distribution on a present column leaves in that column a
\* sequence as long as the table, 0 where the loaded value was absent or not
\* a number and the loaded value elsewhere; sanitizing it again changes
\* nothing.
C8_Sanitize ==
    (ran = <<"plot_distribution">> /\ ~Reported(ColumnNotFound)) =>
        LET c == DistributionColumn[analysis_option]
            before == Column(Loaded, c)
            after == Column(data, c)
        IN /\ Len(after) = Len(Loaded.rows)
           /\ \A i \in DOMAIN after :
                IF before[i].k = "num" THEN after[i] = before[i]
                ELSE after[i] = Num(0)
           /\ Sanitize(after) = after

C8_Witness ==
    /\ ran = <<"plot_distribution">>
    /\ ~Reported(ColumnNotFound)
    /\ LET before == Column(Loaded, DistributionColumn[analysis_option])
       IN /\ \E i \in DOMAIN before : before[i].k = "str"
          /\ \E i \in DOMAIN before : before[i].k = "num"

Referenced(handler, opt) ==
    CASE handler = "plot_distribution" -> {DistributionColumn[opt]}
      [] handler = "busiest_hours" -> {PICKUP}
      [] handler = "top_boroughs" -> {PULOC}
      [] handler = "traffic_heatmap" -> {HOUR, PICKUP}
      [] handler = "revenue_share_by_pickup_zones" -> {PULOC, TOTAL}
      [] handler = "hourly_total_and_tips" -> {PICKUP, TOTAL, TIP}

NotFoundReported == \E i \in DOMAIN out : out[i] \in NotFoundMessages

\* C3: a handler called on a table that lacks a column it reads ends with a
\* reported not-found message and without an exception.
C3_MissingColumnReported ==
    (Len(ran) = 1 /\ ~(Referenced(ran[1], analysis_option) \subseteq Loaded.columns))
        => (NotFoundReported /\ fault = "none")

\* C4: a run that ends in a not-found message leaves the run's table and the
\* memoized table as loaded, and the run that follows it on the same file
\* reports and returns what a first run on that file with the same option
\* does.
C4_NotFoundIsLocal ==
    [][/\ NotFoundReported' =>
            \E t \in {Loaded} : data' = t /\ cache'.value.ret = t
       /\ (NotFoundReported /\ ~file'.none) =>
            \E first \in {Script(csv, analysis_option', EmptyCache)} :
               /\ out' = first.out
               /\ result' = first.result
               /\ fault' = first.fault
               /\ data' = first.data]_vars

\* a not-found run on a table that holds rows and columns another option
\* can use
C4_Witness ==
    /\ NotFoundReported
    /\ Len(data.rows) = MaxRows
    /\ PASSENGERS \in data.columns
    /\ PICKUP \in data.columns

\* C5: with a pickup column (and both value columns) the hourly aggregate
\* has exactly 24 rows, one per hour 0..23, each with the sums over the rows
\* picked up in that hour, 0 where there are none.
C5_HourlyDense ==
    (ran = <<"hourly_total_and_tips">>
        /\ {PICKUP, TOTAL, TIP} \subseteq Loaded.columns) =>
        /\ fault = "none"
        /\ result.kind = "hourly"
        /\ Cardinality(result.rows) = 24
        /\ \A h \in 0..23 :
              \E r \in result.rows :
                 /\ r.hour = Num(h)
                 /\ r.total_amount =
                      SumWhere(Column(Loaded, TOTAL),
                               {i \in DOMAIN Loaded.rows :
                                  HourOf(Loaded.rows[i][PICKUP]) = Num(h)}, 0)
                 /\ r.tip_amount =
                      SumWhere(Column(Loaded, TIP),
                               {i \in DOMAIN Loaded.rows :
                                  HourOf(Loaded.rows[i][PICKUP]) = Num(h)}, 0)

\* C6: with the zone and amount columns present, every zone's share is
\* 100 * groupSum / totalSum, and 0 when the grand total is 0.
C6_ShareOfTotal ==
    (ran = <<"revenue_share_by_pickup_zones">>
        /\ {PULOC, TOTAL} \subseteq Loaded.columns) =>
        /\ fault = "none"
        /\ result.kind = "revenue"
        /\ LET total == SumRows(result.rows, 0)
           IN \A r \in result.rows :
                 /\ r.total_amount =
                      GroupSum(Column(Loaded, PULOC), Column(Loaded, TOTAL),
                               r.PULocationID)
                 /\ r.percentage =
                      IF total = 0 THEN Num(0)
                      ELSE Frac(100 * r.total_amount, total)

\* C7 as stated: after a run that reached the handlers the run's table is
\* the table as loaded.
C7_ReadOnly == Reported(Success) => data = Loaded

\* the columns the last run's handler assigns, t being the table as loaded
Written(t) ==
    IF ran = <<"plot_distribution">> /\ ~Reported(ColumnNotFound)
    THEN {DistributionColumn[analysis_option]}
    ELSE IF ran \in {<<"busiest_hours">>, <<"hourly_total_and_tips">>}
            /\ PICKUP \in t.columns
    THEN {HOUR}
    ELSE {}

\* C7 amended: the memoized table is always the table as loaded; a run's own
\* table keeps the loaded rows and every column the handler does not assign,
\* and the handler assigns only the sanitized requested column
\* (plot_distribution) or the pickup hour as column hour (busiest_hours,
\* hourly_total_and_tips).
C7_WritesOnlyOwnColumn ==
    LET t == Loaded
        w == Written(t)
    IN /\ cache.filled => cache.value.ret = t
       /\ Reported(Success) =>
            /\ data.columns = t.columns \cup w
            /\ Len(data.rows) = Len(t.rows)
            /\ \A c \in t.columns \ w : Column(data, c) = Column(t, c)
            /\ \A c \in w :
                  Column(data, c) =
                    IF c = HOUR
                    THEN [i \in DOMAIN t.rows |-> HourOf(t.rows[i][PICKUP])]
                    ELSE Sanitize(Column(t, c))

\* a run whose handler changed its table
C7_Witness ==
    /\ Reported(Success)
    /\ Written(Loaded) # {}
    /\ data # Loaded
    /\ cache.value.ret = Loaded

\* C10: every option, selected on a loaded table, runs exactly one handler,
\* which gives a result or a reported error.
C10_OneHandlerPerOption ==
    Reported(Success) =>
        /\ Len(ran) = 1
        /\ \/ result.kind # "none"
           \/ NotFoundReported
           \/ Reported(Exception)

====
